---- MODULE Spec2Model ----
(***************************************************************************)
(* Model of src/src/locking/locking.py (class MongoLocks): a lease-based   *)
(* lock manager over a shared document store.                              *)
(*                                                                         *)
(* Timing: `now' is the wall clock in whole seconds (time()).  Straight-   *)
(* line code and store round trips take no model time; time passes only    *)
(* while a caller is between calls, inside a protected region, or inside   *)
(* sleep().  A heartbeat thread wakes exactly when its sleep() ends.       *)
(***************************************************************************)
EXTENDS Naturals, Integers, Sequences, FiniteSets, TLC

VARIABLES
    env,          \* the workload explored (fixed by Init): who calls what
    now,          \* time()
    store,        \* the locks collection: _id -> document or None
    ns,           \* MongoLocks._ns, per manager
    disabled,     \* MongoLocks._disabled
    locks,        \* MongoLocks._locks (the registry)
    initialized,  \* MongoLocks._initialized
    launch_pid,   \* MongoLocks._launch_pid
    pid,          \* os.getpid() of the process the manager object lives in
    hb,           \* the heartbeat thread of each manager
    call,         \* position, arguments and locals of the call a thread is in
    uuids,        \* number of uuid4() values each thread has drawn so far
    disabledOps,  \* history: the disabled managers that issued a store operation
    failures,     \* history: number of store operations that failed
    started,      \* history: number of heartbeat threads started, per manager
    named,        \* two (namespace, key) pairs and the identifiers built for them
    hub           \* an EventHubSender, its consumer thread and its callers

\* the state of the managers, their callers and the store
lockvars == <<env, now, store, ns, disabled, locks, initialized, launch_pid, pid, hb,
              call, uuids, disabledOps, failures, started>>

\* the state the lock managers never touch
aside == <<named, hub>>

vars == <<lockvars, aside>>

(***************************************************************************)
(* Bounds of the model.                                                    *)
(***************************************************************************)
MaxTime == 11
ShortTime == 1
MaxCalls == 2
MaxFailures == 3
MaxForks == 1
MaxCrashes == 1
MaxWait == 10
MaxEvents == 3
MaxLarge == 1
MaxHubTime == 2
BatchSize == 2

(***************************************************************************)
(* Program constants.                                                      *)
(***************************************************************************)
_MAX_AGE == 10
\* (variant: for n in range(2))
HeartbeatAttemptsTwo == 1 + 1
HeartbeatAttempts == 3
ParentPid == 1
batch_timeout == 2

Managers == {"A", "B", "C"}
Threads == {"t1", "t2", "t3"}
Namespaces == {"a", "b"}
Keys == {"job"}

\* the manager instance a caller thread uses
mgr(t) == env.mgr[t]

\* Python's None: for a missing document, lock or id, for a missing string,
\* and for a missing process identity
None == [none |-> TRUE]
NoStr == "None"
NoPid == 0

\* (variant: the namespace of the manager is not part of the identifier)
NsIdSharedPrefix(n, k) == "a" \o "__" \o k

\* key = f"{self._ns}__{key}"
NsId(n, k) == n \o "__" \o k

Ids == {NsId(n, k) : n \in Namespaces, k \in Keys}

\* os.getpid() as seen by the code of manager m
getpid(m) == pid[m]

\* A record is live while expires_at > now
Live(doc, t) == doc # None /\ doc.expires_at > t

(***************************************************************************)
(* The store operations the code uses.                                     *)
(***************************************************************************)
\* (variant: a filter on the key alone, which matches live records as well)
FilterOnKeyOnly(doc, t) == doc # None

\* The filter {"_id": key, "$or": [{expires_at missing}, {expires_at <= time()}]}
FilterMatches(doc, t) == doc # None /\ doc.expires_at <= t

\* (variant: an insert that never replaces a record, stale or not)
_try_acquire_insert_only(st, key, expire_at, id_, t) ==
    LET doc == [expires_at |-> expire_at, lock_id |-> id_] IN
    IF st[key] = None
    THEN [store |-> [st EXCEPT ![key] = doc], lock |-> doc]
    ELSE [store |-> st, lock |-> None]

\* find_one_and_replace(filter, replacement, upsert=True, return_document=AFTER)
\* wrapped by _try_acquire: the new document, or None on DuplicateKeyError.
\* Yields the store after the operation and the returned value.
_try_acquire(st, key, expire_at, id_, t) ==
    LET doc == [expires_at |-> expire_at, lock_id |-> id_] IN
    IF FilterMatches(st[key], t) \/ st[key] = None
    THEN [store |-> [st EXCEPT ![key] = doc], lock |-> doc]
    ELSE [store |-> st, lock |-> None]

\* (variant: a delete whose filter matches nothing)
delete_nothing(st, key) == st

\* delete_one({"_id": key})
delete_one(st, key) == [st EXCEPT ![key] = None]

\* (variant: the update is an upsert and inserts the keys it does not find)
update_many_upsert(st, keys, expires) ==
    [i \in Ids |-> IF i \in keys
                   THEN IF st[i] # None THEN [st[i] EXCEPT !.expires_at = expires]
                        ELSE [expires_at |-> expires, lock_id |-> None]
                   ELSE st[i]]

\* update_many({"_id": {"$in": keys}}, {"$set": {"expires_at": expires}})
update_many(st, keys, expires) ==
    [i \in Ids |-> IF i \in keys /\ st[i] # None
                   THEN [st[i] EXCEPT !.expires_at = expires]
                   ELSE st[i]]

(***************************************************************************)
(* Caller threads.                                                         *)
(***************************************************************************)
NoCall == [pc |-> "idle", op |-> "none", key |-> NoStr, raise_exceptions |-> FALSE, wait_for |-> 0,
           nskey |-> NoStr, expire_at |-> 0, id_ |-> None, start |-> 0,
           lock |-> None, locked |-> FALSE, err |-> NoStr, crossed |-> FALSE,
           prior |-> None, ran |-> FALSE, out |-> NoStr]

NewCall(op, k, r, w) == [NoCall EXCEPT !.op = op, !.key = k,
                                       !.raise_exceptions = r, !.wait_for = w]

\* where each caller thread is
pc == [t \in Threads |-> call[t].pc]

\* a thread in straight-line code: it gets there before the clock moves
Urgent(t) == ~ (pc[t] \in {"idle", "body", "crashed"} \/ (pc[t] = "poll_sleep" /\ ~call[t].crossed))

HbOff == [pc |-> "off", wake |-> 0, n |-> 0, keys |-> {}]

(***************************************************************************)
(* Workloads.  Each fixes the construction arguments of the managers       *)
(* (namespace, disabled), the threads that make calls, the entry points    *)
(* and arguments they use, and what the environment may do.                *)
(***************************************************************************)
OneEach == [t \in Threads |-> CASE t = "t1" -> "A" [] t = "t2" -> "B" [] OTHER -> "C"]

Workload(name, threads, nsB, disB, ops, waits, raises, calls, each, horizon, forks, crashes, fails) ==
    [name |-> name, threads |-> threads, mgr |-> OneEach,
     ns |-> [m \in Managers |-> IF m = "B" THEN nsB ELSE "a"],
     disabled |-> [m \in Managers |-> m = "B" /\ disB],
     ops |-> ops, waits |-> waits, raises |-> raises, calls |-> calls, each |-> each,
     horizon |-> horizon, forks |-> forks, crashes |-> crashes, failures |-> fails,
     roles |-> [t \in Threads |-> ops], starts |-> [t \in Threads |-> 0 .. horizon]]

\* t1 and t2 are threads of one process and use its manager A
BothOnA == [t \in Threads |-> IF t = "t3" THEN "C" ELSE "A"]

\* any thread may make all the calls of the workload
AnyCaller == [t \in Threads |-> MaxCalls + 1]
\* t2 makes one call, the others the rest
T2Once == [t \in Threads |-> IF t = "t2" THEN 1 ELSE MaxCalls]

\* every thread may pass wait_for = 0
NoWait == [t \in Threads |-> {0}]
\* t2 passes a positive wait_for
T2Waits == [t \in Threads |-> IF t = "t2" THEN {MaxWait} ELSE {0}]

\* t1 makes the calls of a workload but one each for t2 and t3
OthersOnce == [t \in Threads |-> IF t = "t1" THEN MaxCalls ELSE 1]

\* t1 and t2 invoke a decorated operation, t3 calls acquire directly
Usurpers == [t \in Threads |-> IF t = "t3" THEN {"acquire"} ELSE {"decorated"}]

\* the instants at which the callers start: t1 and t2 together at first, t1
\* again and t3 once a first lease period has passed
Latecomers(horizon) ==
    [t \in Threads |-> CASE t = "t1" -> {0} \cup (_MAX_AGE .. horizon)
                         [] t = "t2" -> {0}
                         [] OTHER -> _MAX_AGE .. horizon]

\* t2, the caller that waits, starts at the first instant, t1 at any
WaiterFirst(horizon) == [t \in Threads |-> IF t = "t2" THEN {0} ELSE 0 .. horizon]

Cadence == _MAX_AGE \div 3
Pair == {"t1", "t2"}

Workloads ==
    { Workload("race", Threads, "a", FALSE, {"acquire"}, NoWait, {FALSE},
               MaxCalls + 1, AnyCaller, ShortTime, 0, 0, 0),
      Workload("takeover", Pair, "a", FALSE, {"acquire", "release"}, NoWait, {FALSE},
               MaxCalls, AnyCaller, MaxTime, 0, MaxCrashes, 0),
      Workload("namespaces", Pair, "b", FALSE, {"acquire", "release"}, NoWait, {FALSE},
               MaxCalls, AnyCaller, Cadence + ShortTime, 0, 0, 0),
      Workload("disabled", Pair, "a", TRUE,
               {"acquire", "release", "context", "decorated"}, NoWait, BOOLEAN,
               MaxCalls, AnyCaller, ShortTime, 0, 0, 0),
      Workload("scoped", Pair, "a", FALSE, {"context", "decorated"}, NoWait, BOOLEAN,
               MaxCalls, AnyCaller, ShortTime, 0, 0, 0),
      [Workload("waiting", Pair, "a", FALSE, {"decorated"}, T2Waits, {FALSE},
                MaxCalls + 1, T2Once, MaxTime, 0, 0, 0)
          EXCEPT !.starts = WaiterFirst(MaxTime)],
      Workload("fork", Pair, "a", FALSE, {"acquire", "release"}, NoWait, {FALSE},
               MaxCalls, AnyCaller, ShortTime, MaxForks, 0, 0),
      Workload("outage", {"t1"}, "a", FALSE, {"context"}, NoWait, {FALSE},
               MaxCalls, AnyCaller, MaxTime, 0, 0, MaxFailures),
      [Workload("shared", Pair, "a", FALSE, {"acquire", "release"}, NoWait, {FALSE},
                MaxCalls, AnyCaller, ShortTime, 0, 0, 0) EXCEPT !.mgr = BothOnA],
      [Workload("usurp", Threads, "a", FALSE, {"acquire", "decorated"}, T2Waits, {FALSE},
                MaxCalls + 2, OthersOnce, MaxTime + 1, 0, 0, 0)
          EXCEPT !.roles = Usurpers, !.starts = Latecomers(MaxTime + 1)] }

InitLocks ==
    /\ env \in Workloads
    /\ now = 0
    /\ store = [i \in Ids |-> None]
    /\ ns = env.ns
    /\ disabled = env.disabled
    /\ locks = [m \in Managers |-> {}]
    /\ initialized = [m \in Managers |-> FALSE]
    /\ launch_pid = [m \in Managers |-> NoPid]
    /\ pid = [m \in Managers |-> ParentPid]
    /\ hb = [m \in Managers |-> HbOff]
    /\ call = [t \in Threads |-> NoCall]
    /\ uuids = [t \in Threads |-> 0]
    /\ disabledOps = {}
    /\ failures = 0
    /\ started = [m \in Managers |-> 0]

\* no identifier is under study while the managers run
NoNames == [n1 |-> NoStr, k1 |-> NoStr, id1 |-> NoStr, n2 |-> NoStr, k2 |-> NoStr, id2 |-> NoStr]

\* EventHubSender.__init__: an empty queue, not running, no thread; with the
\* locals of _run_loop (batch, last_flush), the clock, the position of the
\* caller of shutdown, and the history of the payloads accepted and of the
\* batches handed to the producer
HubNew == [_running |-> FALSE, _thread |-> "none", queue |-> <<>>,
           batch |-> <<>>, last_flush |-> 0, time |-> 0, shutdown |-> "no",
           events |-> 0, accepted |-> {}, sent |-> <<>>]

Init ==
    /\ InitLocks
    /\ named = NoNames
    /\ hub = HubNew

(***************************************************************************)
(* What the caller of _acquire does with the value it returns.             *)
(***************************************************************************)
\* (variant: the raise_exceptions argument is ignored)
RaisesNothing(locked, raise_exceptions) == FALSE

\* lock_context: if not locked and raise_exceptions: raise LockFailure
RaisesLockFailure(locked, raise_exceptions) == ~locked /\ raise_exceptions

\* the protected region is entered: the body of a with block always, the
\* wrapped callable only "if lock"
EntersBody(op, locked) == op = "context" \/ locked

\* The call record once _acquire has returned `locked': a direct call returns
\* it ("True"/"False"), lock_context raises LockFailure or yields it to the
\* protected region, and with the region skipped runs its finally clause.
\* The locals of _acquire are dropped.
AfterAcquire(c, locked) ==
    LET d == [c EXCEPT !.locked = locked, !.lock = None, !.expire_at = 0,
                       !.start = 0, !.crossed = FALSE, !.wait_for = 0]
        e == [d EXCEPT !.prior = None]
    IN  IF c.op = "acquire"
        THEN [d EXCEPT !.pc = "return", !.out = IF locked THEN "True" ELSE "False"]
        ELSE IF RaisesLockFailure(locked, c.raise_exceptions)
        THEN [d EXCEPT !.pc = "return", !.out = "LockFailure"]
        ELSE IF EntersBody(c.op, locked)
        THEN [e EXCEPT !.pc = "body", !.ran = TRUE]
        ELSE [e EXCEPT !.pc = "finally"]

\* (variant: the error is swallowed and the call answers False)
RaiseSwallowed(c, err) == [c EXCEPT !.pc = "return", !.out = "False"]

\* a call ends with an error raised in it
Raise(c, err) == [c EXCEPT !.pc = "return", !.out = err]

(***************************************************************************)
(* _acquire                                                                *)
(***************************************************************************)
\* (variant: _initialize that starts no thread)
HbNotStarted(t) == HbOff

\* _initialize: Thread(target=self._heartbeat_worker, daemon=True).start();
\* the thread begins with sleep(self._MAX_AGE // 3)
HbStart(t) == [pc |-> "sleep", wake |-> t + (_MAX_AGE \div 3), n |-> 0, keys |-> {}]

\* uuid4() values drawn so far, by all threads
Drawn == uuids["t1"] + uuids["t2"] + uuids["t3"]

\* a store operation may fail (connectivity); the model bounds how many do
StoreMayFail == failures < env.failures

\* (variant: no pid check)
PidMismatchIgnored(m) == FALSE

\* _pid_check raises when self._launch_pid not in (None, os.getpid())
PidMismatch(m) == launch_pid[m] \notin {NoPid, getpid(m)}

\* (variant: the disabled flag is not consulted)
SkipsStoreNever(m) == FALSE

\* if self._disabled: return True
SkipsStore(m) == disabled[m]

\* _acquire from the pid check to the first _try_acquire (no sleep in
\* between): the pid check, the namespaced key, expire_at, the uuid, and
\*   lock = self._try_acquire(key, expire_at, id_)
\*   if lock is None and wait_for: _start = time()
\* `mismatch' is what _pid_check finds.
AcquireAttempt(t, c0, mismatch) ==
    LET m == mgr(t) IN
    IF mismatch
    THEN /\ call' = [call EXCEPT ![t] = Raise(c0, "RuntimeError")]
         /\ UNCHANGED <<store, uuids, disabledOps, failures>>
    ELSE LET c == [c0 EXCEPT !.nskey = NsId(ns[m], c0.key),
                             !.expire_at = now + _MAX_AGE,
                             !.id_ = [by |-> t, n |-> uuids[t] + 1]]
             r == _try_acquire(store, c.nskey, c.expire_at, c.id_, now)
             wait == r.lock = None /\ c.wait_for # 0
         IN  /\ uuids' = [uuids EXCEPT ![t] = @ + 1]
             /\ disabledOps' = disabledOps \cup (IF disabled[m] THEN {m} ELSE {})
             /\ \/ /\ store' = r.store
                   /\ call' = [call EXCEPT ![t] =
                         [c EXCEPT !.lock = r.lock,
                                   !.prior = store[c.nskey],
                                   !.start = IF wait THEN now ELSE 0,
                                   !.pc = IF wait THEN "poll" ELSE "finish"]]
                   /\ UNCHANGED failures
                \/ /\ StoreMayFail
                   /\ failures' = failures + 1
                   /\ call' = [call EXCEPT ![t] = Raise(c, "StoreError")]
                   /\ UNCHANGED store

\* The call from its first line: the disabled check, then the test
\* `if not self._initialized'.  A call that finds the manager initialized goes
\* on to its first attempt; one that finds it uninitialized has yet to set
\* the flag and start the thread, and other threads of the manager may run
\* in between (nothing serializes the test and the assignment).
AcquireStart(t, c0) ==
    LET m == mgr(t) IN
    /\ pc[t] = "idle"
    /\ IF SkipsStore(m)
       THEN /\ call' = [call EXCEPT ![t] = AfterAcquire(c0, TRUE)]
            /\ UNCHANGED <<store, uuids, disabledOps, failures>>
       ELSE /\ Drawn < env.calls /\ uuids[t] < env.each[t]
            /\ IF ~initialized[m]
               THEN /\ call' = [call EXCEPT ![t] = [c0 EXCEPT !.pc = "init"]]
                    /\ UNCHANGED <<store, uuids, disabledOps, failures>>
               ELSE AcquireAttempt(t, c0, PidMismatch(m))
    /\ UNCHANGED <<aside, env, now, ns, disabled, locks, pid, initialized, hb, started, launch_pid>>

\* self._initialized = True; self._initialize(): the heartbeat thread is
\* started (it begins with its sleep) and the launch pid recorded; then the
\* pid check, which finds the pid just recorded, and the first attempt.
\* When two threads of a manager get here, each starts a thread; the threads
\* run the same loop from the same instant and hb follows one of them.
Initialize(t) ==
    LET m == mgr(t) IN
    /\ pc[t] = "init"
    /\ initialized' = [initialized EXCEPT ![m] = TRUE]
    /\ hb' = [hb EXCEPT ![m] = HbStart(now)]
    /\ started' = [started EXCEPT ![m] = @ + 1]
    /\ launch_pid' = [launch_pid EXCEPT ![m] = getpid(m)]
    /\ AcquireAttempt(t, call[t], FALSE)
    /\ UNCHANGED <<aside, env, now, ns, disabled, locks, pid>>

\* thread t of the workload makes a call of kind op now
MayCall(t, op) ==
    t \in env.threads /\ op \in env.ops /\ op \in env.roles[t] /\ now \in env.starts[t]

\* _acquire(key, self._MAX_AGE, wait_for) called directly
CallAcquire(t, k, w) ==
    /\ MayCall(t, "acquire") /\ w \in env.waits[t]
    /\ AcquireStart(t, NewCall("acquire", k, FALSE, w))

\* with self.lock_context(key, raise_exceptions=r, wait_for=w)
CallContext(t, k, r, w) ==
    /\ MayCall(t, "context") /\ w \in env.waits[t] /\ r \in env.raises
    /\ AcquireStart(t, NewCall("context", k, r, w))

\* a callable wrapped by self.lock(key, raise_exceptions=r, wait_for=w) is invoked
CallDecorated(t, k, r, w) ==
    /\ MayCall(t, "decorated") /\ w \in env.waits[t] /\ r \in env.raises
    /\ AcquireStart(t, NewCall("decorated", k, r, w))

\* control is back in the caller of the public entry point
Return(t) ==
    /\ pc[t] = "return"
    /\ call' = [call EXCEPT ![t] = NoCall]
    /\ UNCHANGED <<aside, env, now, store, ns, disabled, started, locks, initialized, launch_pid, pid,
                   hb, uuids, disabledOps, failures>>

\* (variant: a polling loop without the elapsed-time test)
PollNeverExpired(c, t) == FALSE

\* while lock is None: if time() - _start > wait_for: break
PollExpired(c, t) == t - c.start > c.wait_for

PollGiveUp(t) ==
    /\ pc[t] = "poll"
    /\ PollExpired(call[t], now)
    /\ call' = [call EXCEPT ![t].pc = "finish"]
    /\ UNCHANGED <<aside, env, now, store, ns, disabled, started, locks, initialized, launch_pid, pid,
                   hb, uuids, disabledOps, failures>>

\* lock = self._try_acquire(key, expire_at, id_), then sleep(_POOLING_INTERVAL / 1000)
PollTry(t) ==
    /\ pc[t] = "poll"
    /\ ~PollExpired(call[t], now)
    /\ \/ LET c == call[t]
              r == _try_acquire(store, c.nskey, c.expire_at, c.id_, now)
          IN /\ store' = r.store
             /\ call' = [call EXCEPT ![t].lock = r.lock,
                                     ![t].prior = store[c.nskey],
                                     ![t].crossed = FALSE,
                                     ![t].pc = "poll_sleep"]
             /\ UNCHANGED failures
       \/ /\ StoreMayFail
          /\ failures' = failures + 1
          /\ call' = [call EXCEPT ![t] = Raise(call[t], "StoreError")]
          /\ UNCHANGED store
    /\ UNCHANGED <<aside, env, now, ns, disabled, started, locks, initialized, launch_pid, pid, hb, uuids,
                   disabledOps>>

\* the sleep of the polling loop ends; the loop goes on while lock is None
PollWake(t) ==
    /\ pc[t] = "poll_sleep"
    /\ call' = [call EXCEPT ![t].crossed = FALSE,
                            ![t].pc = IF call[t].lock = None THEN "poll" ELSE "finish"]
    /\ UNCHANGED <<aside, env, now, store, ns, disabled, started, locks, initialized, launch_pid, pid,
                   hb, uuids, disabledOps, failures>>

\* locked = lock is not None and (lock["lock_id"] == id_)
Locked(c) == c.lock # None /\ c.lock.lock_id = c.id_

\* if locked: self._locks.add(key); return locked
AcqFinish(t) ==
    /\ pc[t] = "finish"
    /\ locks' = [locks EXCEPT ![mgr(t)] = IF Locked(call[t]) THEN @ \cup {call[t].nskey} ELSE @]
    /\ call' = [call EXCEPT ![t] = AfterAcquire(call[t], Locked(call[t]))]
    /\ UNCHANGED <<aside, env, now, store, ns, disabled, started, initialized, launch_pid, pid, hb, uuids,
                   disabledOps, failures>>

(***************************************************************************)
(* The protected region, the exit of lock_context, and _release.           *)
(***************************************************************************)
\* what the construct hands to its caller once its finally clause is over
Outcome(c) == IF c.err # NoStr THEN c.err ELSE "returned"

\* (variant: the release sits after the region and not in a finally clause)
ReleasesOnNormalExit(c) == c.locked /\ c.err = NoStr

\* (variant: the finally clause releases whether or not the lock was got)
ReleasesAlways(c) == TRUE

\* finally: if locked: self._release(key)
ReleasesOnExit(c) == c.locked

\* _release up to the registry: if self._disabled: return;
\* key = f"{self._ns}__{key}"; self._locks.discard(key)
ReleaseStart(t, c) ==
    LET m == mgr(t) IN
    IF SkipsStore(m)
    THEN /\ call' = [call EXCEPT ![t] = [c EXCEPT !.pc = "return", !.out = Outcome(c)]]
         /\ UNCHANGED locks
    ELSE /\ locks' = [locks EXCEPT ![m] = @ \ {NsId(ns[m], c.key)}]
         /\ call' = [call EXCEPT ![t] = [c EXCEPT !.pc = "delete", !.nskey = NsId(ns[m], c.key)]]

\* the finally clause of lock_context, entered with the error the region
\* raised (or none); the error is re-raised after it
Exit(t, c) ==
    /\ IF ReleasesOnExit(c)
       THEN ReleaseStart(t, c)
       ELSE /\ call' = [call EXCEPT ![t] = [c EXCEPT !.pc = "return", !.out = Outcome(c)]]
            /\ UNCHANGED locks
    /\ UNCHANGED <<aside, env, now, store, ns, disabled, started, initialized, launch_pid, pid, hb, uuids,
                   disabledOps, failures>>

\* the protected region returns normally
BodyReturn(t) ==
    /\ pc[t] = "body"
    /\ Exit(t, call[t])

\* the protected region raises
BodyRaise(t) ==
    /\ pc[t] = "body"
    /\ Exit(t, [call[t] EXCEPT !.err = "BodyError"])

\* the wrapped callable was skipped: the with block of `wrapped' is left
Finally(t) ==
    /\ pc[t] = "finally"
    /\ Exit(t, call[t])

\* _release(key) called directly
CallRelease(t, k) ==
    /\ MayCall(t, "release")
    /\ pc[t] = "idle"
    /\ ReleaseStart(t, NewCall("release", k, FALSE, 0))
    /\ UNCHANGED <<aside, env, now, store, ns, disabled, started, initialized, launch_pid, pid, hb, uuids,
                   disabledOps, failures>>

\* self._client.delete_one({"_id": key})
RelDelete(t) ==
    /\ pc[t] = "delete"
    /\ disabledOps' = disabledOps \cup (IF disabled[mgr(t)] THEN {mgr(t)} ELSE {})
    /\ \/ /\ store' = delete_one(store, call[t].nskey)
          /\ call' = [call EXCEPT ![t].pc = "return", ![t].out = Outcome(call[t])]
          /\ UNCHANGED failures
       \/ /\ StoreMayFail
          /\ failures' = failures + 1
          /\ call' = [call EXCEPT ![t] = Raise(call[t], "StoreError")]
          /\ UNCHANGED store
    /\ UNCHANGED <<aside, env, now, ns, disabled, started, locks, initialized, launch_pid, pid, hb, uuids>>

(***************************************************************************)
(* _heartbeat_worker                                                       *)
(***************************************************************************)
\* sleep(self._MAX_AGE // 3) is over: for n in range(3) starts with n = 0, and
\* the thread goes on to read the registry
HbWake(m) ==
    /\ hb[m].pc = "sleep"
    /\ now >= hb[m].wake
    /\ hb' = [hb EXCEPT ![m].pc = "read", ![m].n = 0]
    /\ UNCHANGED <<aside, env, now, store, ns, disabled, started, locks, initialized, launch_pid, pid,
                   call, uuids, disabledOps, failures>>

\* list(self._locks): the registry is read, with nothing held that would keep
\* the caller threads of the manager from adding to it or discarding from it
\* in the meantime; the list is what the registry holds when the read ends
HbRead(m) ==
    /\ hb[m].pc = "read"
    /\ hb' = [hb EXCEPT ![m].pc = "update", ![m].keys = locks[m]]
    /\ UNCHANGED <<aside, env, now, store, ns, disabled, started, locks, initialized, launch_pid, pid,
                   call, uuids, disabledOps, failures>>

\* update_many(...) succeeds: break, and the next cycle starts with its sleep
HbUpdate(m) ==
    /\ hb[m].pc = "update"
    /\ store' = update_many(store, hb[m].keys, now + _MAX_AGE)
    /\ disabledOps' = disabledOps \cup (IF disabled[m] THEN {m} ELSE {})
    /\ hb' = [hb EXCEPT ![m] = [pc |-> "sleep", wake |-> now + (_MAX_AGE \div 3),
                                n |-> 0, keys |-> {}]]
    /\ UNCHANGED <<aside, env, now, ns, disabled, started, locks, initialized, launch_pid, pid,
                   call, uuids, failures>>

\* update_many(...) raises: err = e; sleep(1 * n)
HbFail(m) ==
    /\ hb[m].pc = "update"
    /\ StoreMayFail
    /\ failures' = failures + 1
    /\ disabledOps' = disabledOps \cup (IF disabled[m] THEN {m} ELSE {})
    /\ hb' = [hb EXCEPT ![m].pc = "backoff", ![m].wake = now + 1 * hb[m].n, ![m].keys = {}]
    /\ UNCHANGED <<aside, env, now, store, ns, disabled, started, locks, initialized, launch_pid, pid,
                   call, uuids>>

\* the backoff sleep is over: the next attempt reads the registry again, or
\* after the last one the else clause logs the error and the next cycle starts
\* with its sleep
HbRetry(m) ==
    /\ hb[m].pc = "backoff"
    /\ now >= hb[m].wake
    /\ hb' = [hb EXCEPT ![m] = IF hb[m].n + 1 < HeartbeatAttempts
                                THEN [pc |-> "read", wake |-> 0, n |-> hb[m].n + 1,
                                      keys |-> {}]
                                ELSE [pc |-> "sleep", wake |-> now + (_MAX_AGE \div 3),
                                      n |-> 0, keys |-> {}]]
    /\ UNCHANGED <<aside, env, now, store, ns, disabled, started, locks, initialized, launch_pid, pid,
                   call, uuids, disabledOps, failures>>

\* a heartbeat thread that has something to do now
HbDue(m) == \/ hb[m].pc \in {"read", "update"}
            \/ hb[m].pc \in {"sleep", "backoff"} /\ now >= hb[m].wake

(***************************************************************************)
(* The environment: time and process duplication.                          *)
(***************************************************************************)
Tick ==
    /\ now < env.horizon
    /\ \A t \in Threads : ~Urgent(t)
    /\ \A m \in Managers : ~HbDue(m)
    /\ now' = now + 1
    /\ call' = [t \in Threads |-> IF pc[t] = "poll_sleep"
                                  THEN [call[t] EXCEPT !.crossed = TRUE] ELSE call[t]]
    /\ UNCHANGED <<aside, env, store, ns, disabled, started, locks, initialized, launch_pid, pid, hb, uuids, disabledOps, failures>>

\* The process holding manager m is duplicated while no call is in progress,
\* and the model follows the copy: a new process identity, the same fields,
\* and no heartbeat thread.
Fork(m) ==
    /\ Cardinality({x \in Managers : pid[x] # ParentPid}) < env.forks
    /\ pid[m] = ParentPid
    /\ \A t \in Threads : mgr(t) = m => pc[t] = "idle"
    /\ pid' = [pid EXCEPT ![m] = ParentPid + 1]
    /\ hb' = [hb EXCEPT ![m] = IF hb[m].pc = "off" THEN HbOff
                               ELSE [pc |-> "dead", wake |-> 0, n |-> 0, keys |-> {}]]
    /\ UNCHANGED <<aside, env, now, store, ns, disabled, started, locks, initialized, launch_pid,
                   call, uuids, disabledOps, failures>>

\* The process holding manager m is killed: its heartbeat thread and its
\* caller threads stop for good, and nothing is released.
Crash(m) ==
    /\ Cardinality({t \in Threads : pc[t] = "crashed"}) < env.crashes
    /\ initialized[m]
    /\ \A t \in Threads : mgr(t) = m => ~Urgent(t) /\ pc[t] # "crashed"
    /\ ~HbDue(m)
    /\ call' = [t \in Threads |-> IF mgr(t) = m THEN [call[t] EXCEPT !.pc = "crashed"]
                                  ELSE call[t]]
    /\ hb' = [hb EXCEPT ![m] = [pc |-> "dead", wake |-> 0, n |-> 0, keys |-> {}]]
    /\ UNCHANGED <<aside, env, now, store, ns, disabled, started, locks, initialized, launch_pid, pid,
                   uuids, disabledOps, failures>>

Next ==
    \/ \E t \in Threads, k \in Keys, w \in {0, MaxWait} : CallAcquire(t, k, w)
    \/ \E t \in Threads, k \in Keys : CallRelease(t, k)
    \/ \E t \in Threads, k \in Keys, r \in BOOLEAN, w \in {0, MaxWait} : CallContext(t, k, r, w)
    \/ \E t \in Threads, k \in Keys, r \in BOOLEAN, w \in {0, MaxWait} : CallDecorated(t, k, r, w)
    \/ \E t \in Threads : Initialize(t)
    \/ \E t \in Threads : Return(t)
    \/ \E t \in Threads : PollGiveUp(t)
    \/ \E t \in Threads : PollTry(t)
    \/ \E t \in Threads : PollWake(t)
    \/ \E t \in Threads : AcqFinish(t)
    \/ \E t \in Threads : BodyReturn(t)
    \/ \E t \in Threads : BodyRaise(t)
    \/ \E t \in Threads : Finally(t)
    \/ \E t \in Threads : RelDelete(t)
    \/ \E m \in Managers : HbWake(m)
    \/ \E m \in Managers : HbRead(m)
    \/ \E m \in Managers : HbUpdate(m)
    \/ \E m \in Managers : HbFail(m)
    \/ \E m \in Managers : HbRetry(m)
    \/ \E m \in Managers : Fork(m)
    \/ \E m \in Managers : Crash(m)
    \/ Tick

Spec == Init /\ [][Next]_vars

(***************************************************************************)
(* The namespaced identifier as a function of its inputs: two callers, each *)
(* with a namespace and a key of its own, build the identifier, one in      *)
(* _acquire and one in _release.  Namespaces and keys are any strings; the  *)
(* ones tried include some with underscores at either end and some that     *)
(* contain "__".                                                            *)
(***************************************************************************)
NamespaceNames == {"a", "b", "a_", "a__b"}
KeyNames == {"job", "_job", "b__job", "a__job"}

InitNames ==
    /\ InitLocks /\ env.name = "race"
    /\ named \in {[NoNames EXCEPT !.n1 = n1, !.k1 = k1, !.n2 = n2, !.k2 = k2] :
                     n1 \in NamespaceNames, k1 \in KeyNames,
                     n2 \in NamespaceNames, k2 \in KeyNames}
    /\ hub = HubNew

\* _acquire: key = f"{self._ns}__{key}"
AcquireNames ==
    /\ named.id1 = NoStr
    /\ named' = [named EXCEPT !.id1 = NsId(named.n1, named.k1)]
    /\ UNCHANGED <<lockvars, hub>>

\* _release: key = f"{self._ns}__{key}"
ReleaseNames ==
    /\ named.id2 = NoStr
    /\ named' = [named EXCEPT !.id2 = NsId(named.n2, named.k2)]
    /\ UNCHANGED <<lockvars, hub>>

NextNames ==
    \/ AcquireNames
    \/ ReleaseNames

SpecNames == InitNames /\ [][NextNames]_vars

(***************************************************************************)
(* src/src/event_hub/event_hub.py (class EventHubSender): payloads are put  *)
(* on a queue by add_event and sent in batches by a consumer thread.  The   *)
(* clock hub.time counts seconds; an iteration of the consumer loop and its *)
(* sleep of 0.01 s take no time on that scale.  The sender is run once.     *)
(***************************************************************************)
InitHub ==
    /\ InitLocks /\ env.name = "race"
    /\ named = NoNames
    /\ hub = HubNew

\* the first n elements of a sequence, and the rest
Take(q, n) == SubSeq(q, 1, n)
Drop(q, n) == SubSeq(q, n + 1, Len(q))

Min(a, b) == IF a < b THEN a ELSE b

\* the payloads of a sequence, as a set
Payloads(q) == {q[j] : j \in 1 .. Len(q)}

\* run(): if self._running: return; self._running = True; the thread starts
Run ==
    /\ hub._running \/ hub._thread = "none"
    /\ hub' = IF hub._running THEN hub
              ELSE [hub EXCEPT !._running = TRUE, !._thread = "create"]
    /\ UNCHANGED <<lockvars, named>>

\* add_event(payload): if not self._running: raise RuntimeError;
\* self.queue.put(payload).  Payloads are numbered in the order of the calls;
\* a large one is too large for a batch of the producer.
add_event(large) ==
    /\ hub.events < MaxEvents
    /\ large => Cardinality({p \in hub.accepted : p.large}) < MaxLarge
    /\ LET payload == [n |-> hub.events + 1, large |-> large] IN
       hub' = IF ~hub._running
              THEN [hub EXCEPT !.events = @ + 1]
              ELSE [hub EXCEPT !.events = @ + 1,
                               !.queue = Append(@, payload),
                               !.accepted = @ \cup {payload}]
    /\ UNCHANGED <<lockvars, named>>

\* shutdown(), called by the program or at exit: if self._running:
\* self._running = False; if self._thread: self._thread.join(timeout=15)
shutdown ==
    /\ hub.shutdown = "no"
    /\ hub._running
    /\ hub' = [hub EXCEPT !._running = FALSE,
                          !.shutdown = IF hub._thread = "none" THEN "done" ELSE "join"]
    /\ UNCHANGED <<lockvars, named>>

\* join returns: the consumer thread has ended
Joined ==
    /\ hub.shutdown = "join"
    /\ hub._thread = "done"
    /\ hub' = [hub EXCEPT !.shutdown = "done"]
    /\ UNCHANGED <<lockvars, named>>

\* _run_loop up to the loop: producer = self._create_producer(); without a
\* producer self._running = False and the thread ends; with one,
\* batch = []; last_flush = time.time()
CreateProducer ==
    /\ hub._thread = "create"
    /\ \/ hub' = [hub EXCEPT !._thread = "loop", !.batch = <<>>, !.last_flush = hub.time]
       \/ hub' = [hub EXCEPT !._thread = "done", !._running = FALSE]
    /\ UNCHANGED <<lockvars, named>>

\* _send_batch(producer, payloads): every payload is added to a new batch of
\* the producer but those that raise ValueError (too large), which are
\* skipped, and the batch is sent
_send_batch(sent, payloads) ==
    Append(sent, SelectSeq(payloads, LAMBDA p : ~p.large))

\* One iteration of `while self._running': now = time.time(); the queue is
\* drained into batch while batch is shorter than batch_size; the batch is
\* sent if it is not empty and is full or batch_timeout has passed since
\* last_flush; then asyncio.sleep(0.01).
Iterate ==
    /\ hub._thread = "loop"
    /\ hub._running
    /\ LET n == Min(Len(hub.queue), BatchSize - Len(hub.batch))
           batch == hub.batch \o Take(hub.queue, n)
           flush == /\ batch # <<>>
                    /\ Len(batch) >= BatchSize \/ hub.time - hub.last_flush >= batch_timeout
       IN  hub' = [hub EXCEPT !.queue = Drop(@, n),
                              !.batch = IF flush THEN <<>> ELSE batch,
                              !.sent = IF flush THEN _send_batch(@, batch) ELSE @,
                              !.last_flush = IF flush THEN hub.time ELSE @]
    /\ UNCHANGED <<lockvars, named>>

\* The loop ends because self._running is False; finally: if batch:
\* self._send_batch(producer, batch); producer.close()
RunLoopEnds ==
    /\ hub._thread = "loop"
    /\ ~hub._running
    /\ hub' = [hub EXCEPT !._thread = "done",
                          !.batch = <<>>,
                          !.sent = IF hub.batch # <<>> THEN _send_batch(@, hub.batch) ELSE @]
    /\ UNCHANGED <<lockvars, named>>

\* a second passes
HubTick ==
    /\ hub.time < MaxHubTime
    /\ hub' = [hub EXCEPT !.time = @ + 1]
    /\ UNCHANGED <<lockvars, named>>

NextHub ==
    \/ Run
    \/ \E large \in BOOLEAN : add_event(large)
    \/ shutdown
    \/ Joined
    \/ CreateProducer
    \/ Iterate
    \/ RunLoopEnds
    \/ HubTick

SpecHub == InitHub /\ [][NextHub]_vars


(***************************************************************************)
(* Properties.                                                             *)
(***************************************************************************)
\* the direct acquire calls on identifier i that return at this instant
Returning(i) ==
    {t \in Threads : /\ pc[t] = "return" /\ call[t].op = "acquire"
                     /\ call[t].nskey = i /\ call[t].out \in {"True", "False"}}

\* the calls of R raced for a key with no live record: whoever of them was
\* refused was refused by the record one of them wrote in this very call
RacedForFreeKey(R) ==
    \A t \in R : call[t].out = "False" =>
        \E r \in R : call[t].prior # None /\ call[t].prior.lock_id = call[r].id_

\* C1 (mutual exclusion): when acquire calls are the only operations issued,
\* among two or more concurrent acquire calls on the same namespaced key that
\* found no live record left by an earlier call, exactly one returns True and
\* all the others return False.
C1_ExactlyOneWinner ==
    env.ops = {"acquire"} =>
        \A i \in Ids :
            LET R == Returning(i) IN
            (Cardinality(R) >= 2 /\ RacedForFreeKey(R)) =>
                Cardinality({t \in R : call[t].out = "True"}) = 1

\* three managers raced for the key: one call won and both others were refused
C1_Witness ==
    /\ env.ops = {"acquire"}
    /\ \E i \in Ids :
          /\ Returning(i) = Threads
          /\ RacedForFreeKey(Threads)
          /\ Cardinality({t \in Threads : call[t].out = "False"}) = 2
          /\ \A t \in Threads : call[t].prior = None \/ call[t].out = "False"

\* manager of thread a holds identifier i and has crashed: its process is
\* gone with the key in its registry, and the record in the store is its own
CrashedHolding(a, i, doc) ==
    /\ pc[a] = "crashed" /\ i \in locks[mgr(a)]
    /\ doc # None /\ doc.lock_id.by = a

\* C2 (lease takeover): once the holder of a key has crashed without
\* releasing, an acquire (wait_for = 0) by another manager that finds the
\* holder's record returns False while now < expires_at of that record, and
\* returns True once now > expires_at.
C2_TakeoverAfterExpiry ==
    \A a \in Threads, b \in Threads :
        LET c == call[b] IN
        ( /\ mgr(a) # mgr(b)
          /\ pc[b] = "return" /\ c.op = "acquire" /\ c.out \in {"True", "False"}
          /\ CrashedHolding(a, c.nskey, c.prior) )
        => /\ now < c.prior.expires_at => c.out = "False"
           /\ now > c.prior.expires_at => c.out = "True"

\* a manager took the key over from a crashed holder after the lease ran out
C2_Witness ==
    \E a \in Threads, b \in Threads :
        /\ mgr(a) # mgr(b)
        /\ pc[b] = "return" /\ call[b].op = "acquire" /\ call[b].out = "True"
        /\ CrashedHolding(a, call[b].nskey, call[b].prior)
        /\ now > call[b].prior.expires_at
        /\ store[call[b].nskey].lock_id = call[b].id_

\* ... and was refused while the lease of the crashed holder was running
C2_RefusedWitness ==
    \E a \in Threads, b \in Threads :
        /\ mgr(a) # mgr(b)
        /\ pc[b] = "return" /\ call[b].op = "acquire" /\ call[b].out = "False"
        /\ CrashedHolding(a, call[b].nskey, call[b].prior)
        /\ now < call[b].prior.expires_at


\* the heartbeat thread of manager m is alive in the process that runs m
DaemonRuns(m) == hb[m].pc \in {"sleep", "read", "update", "backoff"}

\* thread t is inside a protected region it entered with the lock on its key
HoldsInBody(t) == pc[t] = "body" /\ call[t].locked /\ ~disabled[mgr(t)]

\* C3 (heartbeat renewal): while a caller holds a key (it is in the protected
\* region it entered with the lock), the daemon of its manager runs on its
\* cadence of _MAX_AGE // 3 and no store operation has failed, the record of
\* the key is live (expires_at > now) and no other caller has got the key.
C3_HeldLeaseStaysLive ==
    \A t \in Threads :
        (HoldsInBody(t) /\ DaemonRuns(mgr(t)) /\ failures = 0) =>
            /\ Live(store[call[t].nskey], now)
            /\ \A u \in Threads \ {t} :
                  ~ (call[u].nskey = call[t].nskey /\ pc[u] = "finish" /\ Locked(call[u]))

\* C3 where no call waits for the lock (wait_for = 0 everywhere): a holder
\* whose daemon runs and whose store answers keeps a live record
C3_HeldLeaseStaysLiveNoWait ==
    (\A t \in Threads : env.waits[t] = {0}) => C3_HeldLeaseStaysLive

\* a lock held across a whole lease duration is still live: it was renewed
C3_RenewedWitness ==
    \E t \in Threads :
        /\ HoldsInBody(t) /\ DaemonRuns(mgr(t)) /\ failures = 0
        /\ now >= _MAX_AGE
        /\ \A u \in Threads : env.waits[u] = {0}
        /\ Live(store[call[t].nskey], now)
        /\ store[call[t].nskey].lock_id = call[t].id_


\* thread t takes the step of _release that deletes the record
Deletes(t) == pc[t] = "delete" /\ pc'[t] = "return"

\* thread t is the only caller of its manager
CallsAlone(t) == \A u \in env.threads \ {t} : mgr(u) # mgr(t)

\* C4 (idempotent release): every release(K) of an enabled manager whose
\* delete reaches the store ends without an error, with no record under K's
\* namespaced identifier and with that identifier out of the manager's
\* registry; this includes a release that follows another release and a
\* release of a key the manager never held.  The identifier leaves the
\* registry with the discard, and is out of it when the call ends unless
\* another thread of the same manager acquired the key in the meantime.
C4_ReleaseIdempotent ==
    [][\A t \in Threads :
          /\ (pc[t] = "idle" /\ pc'[t] = "delete" /\ call'[t].op = "release") =>
                 call'[t].nskey \notin locks'[mgr(t)]
          /\ (Deletes(t) /\ call[t].op = "release" /\ failures' = failures) =>
                 /\ call'[t].out = "returned"
                 /\ store'[call[t].nskey] = None
                 /\ CallsAlone(t) => call[t].nskey \notin locks'[mgr(t)]]_vars

\* a release returns for a key that was never acquired by anyone
C4_Witness ==
    \E t \in Threads :
        /\ pc[t] = "return" /\ call[t].op = "release" /\ call[t].out = "returned"
        /\ Drawn = 0
        /\ ~disabled[mgr(t)]
        /\ store[call[t].nskey] = None
        /\ call[t].nskey \notin locks[mgr(t)]

\* thread t or the daemon of its manager takes this step
StepOf(t) == call'[t] # call[t] \/ hb'[mgr(t)] # hb[mgr(t)]

\* C5 (namespace isolation), the states: an acquire returns False only
\* because of a record written by a manager of the same namespace.
C5_RefusedBySameNamespace ==
    \A t \in Threads :
        (pc[t] = "return" /\ call[t].op = "acquire" /\ call[t].out = "False") =>
            /\ call[t].prior # None
            /\ ns[mgr(call[t].prior.lock_id.by)] = ns[mgr(t)]

\* C5 (namespace isolation), the steps: no operation of a manager changes
\* the record another manager of a different namespace keeps for the same key.
C5_OtherNamespaceUntouched ==
    \A t \in Threads, u \in Threads, k \in Keys :
        (ns[mgr(t)] # ns[mgr(u)] /\ StepOf(t) /\ ~StepOf(u)) =>
            store'[NsId(ns[mgr(u)], k)] = store[NsId(ns[mgr(u)], k)]

\* C5 (namespace isolation): two managers with different namespaces using
\* the same key never affect each other: neither changes the other's record,
\* and neither is refused because of the other's record.
C5_NamespaceIsolation ==
    []C5_RefusedBySameNamespace /\ [][C5_OtherNamespaceUntouched]_vars

\* two managers of different namespaces hold the same key at the same time
C5_Witness ==
    \E t \in Threads, u \in Threads, k \in Keys :
        /\ ns[mgr(t)] # ns[mgr(u)]
        /\ NsId(ns[mgr(t)], k) \in locks[mgr(t)] /\ NsId(ns[mgr(u)], k) \in locks[mgr(u)]
        /\ Live(store[NsId(ns[mgr(t)], k)], now) /\ store[NsId(ns[mgr(t)], k)].lock_id.by = t
        /\ Live(store[NsId(ns[mgr(u)], k)], now) /\ store[NsId(ns[mgr(u)], k)].lock_id.by = u


\* thread t is in one of the scoped constructs (lock_context or a callable
\* wrapped by lock)
Scoped(t) == call[t].op \in {"context", "decorated"}

\* C6 (disabled mode): a manager constructed disabled answers True to every
\* acquire whatever the store holds, and neither reads, writes nor deletes
\* store records, nor starts the heartbeat daemon, nor keeps a registry.
C6_DisabledIsInert ==
    \A t \in Threads :
        LET m == mgr(t) IN
        disabled[m] =>
            /\ m \notin disabledOps
            /\ hb[m].pc = "off" /\ ~initialized[m] /\ locks[m] = {}
            /\ pc[t] \in {"idle", "body", "return"}
            /\ (pc[t] = "return" /\ call[t].op = "acquire") => call[t].out = "True"
            /\ (pc[t] = "return" /\ Scoped(t)) => call[t].ran
            /\ pc[t] = "body" => call[t].locked

\* a disabled manager is told True while another manager holds the same key
\* of the same namespace with a live record, which is left as it was
C6_Witness ==
    \E t \in Threads, u \in Threads, k \in Keys :
        /\ disabled[mgr(t)] /\ ~disabled[mgr(u)] /\ ns[mgr(t)] = ns[mgr(u)]
        /\ pc[t] = "return" /\ call[t].op = "acquire" /\ call[t].out = "True"
        /\ call[t].key = k
        /\ NsId(ns[mgr(u)], k) \in locks[mgr(u)]
        /\ Live(store[NsId(ns[mgr(u)], k)], now)
        /\ store[NsId(ns[mgr(u)], k)].lock_id.by = u

\* C7 (scoped release), the states: a scoped construct that entered its
\* region with the lock hands control back with the key out of the registry,
\* and with the error of the region if it raised one.
C7_LeftWithoutKey ==
    \A t \in Threads :
        (pc[t] = "return" /\ Scoped(t) /\ call[t].locked /\ ~disabled[mgr(t)]) =>
            /\ call[t].nskey \notin locks[mgr(t)]
            /\ call[t].out \in {"returned", "BodyError", "StoreError"}
            /\ (call[t].err = "BodyError" /\ call[t].out # "StoreError")
                   => call[t].out = "BodyError"

\* C7 (scoped release), the steps: the region is left, normally or by an
\* error, through _release, whose delete leaves no record under the key.
C7_ExitDeletes ==
    \A t \in Threads :
        /\ (pc[t] = "body" /\ call[t].locked /\ ~disabled[mgr(t)] /\ pc'[t] # "body")
               => pc'[t] \in {"delete", "crashed"}
        /\ (Deletes(t) /\ Scoped(t) /\ failures' = failures)
               => /\ store'[call[t].nskey] = None
                  /\ call'[t].out = Outcome(call[t])

\* C7 (scoped release): leaving the region of lock_context that was entered
\* with the lock releases the key on every exit path, normal or by an error,
\* and the error still reaches the caller.
C7_ReleasedOnEveryExit ==
    []C7_LeftWithoutKey /\ [][C7_ExitDeletes]_vars

\* a region entered with the lock raised: the error is handed on, the record
\* is gone and the key is out of the registry
C7_Witness ==
    \E t \in Threads :
        /\ pc[t] = "return" /\ call[t].op = "context" /\ call[t].locked
        /\ ~disabled[mgr(t)]
        /\ call[t].err = "BodyError" /\ call[t].out = "BodyError"
        /\ store[call[t].nskey] = None
        /\ call[t].nskey \notin locks[mgr(t)]

\* the scoped call of t was refused: its only attempt, made at this instant,
\* found the live record of another caller
Refused(t) ==
    /\ call[t].prior # None /\ Live(call[t].prior, now)
    /\ call[t].prior.lock_id.by # t

\* C8 (raise on failure): a scoped acquisition with raise_exceptions set that
\* finds the key held by another caller's live record raises LockFailure and
\* its region never runs; LockFailure is raised in no other case.
C8_LockFailureBeforeBody ==
    \A t \in Threads :
        /\ (pc[t] = "return" /\ Scoped(t) /\ call[t].raise_exceptions /\ Refused(t))
               => (call[t].out = "LockFailure" /\ ~call[t].ran)
        /\ (pc[t] = "return" /\ call[t].out = "LockFailure")
               => (call[t].raise_exceptions /\ ~call[t].locked /\ ~call[t].ran)
        /\ (pc[t] \in {"body", "finally", "delete"} /\ Scoped(t) /\ call[t].raise_exceptions)
               => call[t].locked

\* LockFailure is raised to a caller while another caller holds the key
C8_Witness ==
    \E t \in Threads :
        /\ pc[t] = "return" /\ call[t].op = "context" /\ call[t].raise_exceptions
        /\ Refused(t)
        /\ call[t].out = "LockFailure" /\ ~call[t].ran
        /\ store[call[t].nskey] = call[t].prior


\* thread t runs the body of a wrapped callable of an enabled manager
InDecoratedBody(t) == pc[t] = "body" /\ call[t].op = "decorated" /\ ~disabled[mgr(t)]

\* C9 (decorator), the body and the lock: the body of a wrapped callable runs
\* only after a successful acquire of its key and before the matching
\* release, and a call whose acquire failed without raise_exceptions returns
\* without having run it.
C9_BodyOnlyWithLock ==
    \A t \in Threads :
        /\ InDecoratedBody(t) => (call[t].locked /\ call[t].nskey \in locks[mgr(t)])
        /\ (call[t].op = "decorated" /\ pc[t] \in {"finally", "delete", "return"}
              /\ ~call[t].locked) => ~call[t].ran
        /\ (call[t].op = "decorated" /\ pc[t] = "finally") => ~call[t].raise_exceptions

\* two wrapped callables of the same key and namespace run their bodies at
\* the same time, with the daemons of both managers running and a store
\* that never failed
BodiesOverlap(t, u) ==
    /\ t # u
    /\ InDecoratedBody(t) /\ InDecoratedBody(u)
    /\ call[t].nskey = call[u].nskey
    /\ DaemonRuns(mgr(t)) /\ DaemonRuns(mgr(u))
    /\ failures = 0

\* C9 (decorator wrapping): the body of a callable wrapped by lock runs only
\* between a successful acquire and the matching release, it is skipped when
\* the acquire fails with raise_exceptions off, and two concurrent
\* invocations wrapped with the same key and namespace never run their
\* bodies at the same time while the daemons renew the leases.
C9_DecoratedBodiesExclusive ==
    /\ C9_BodyOnlyWithLock
    /\ \A t \in Threads, u \in Threads : ~BodiesOverlap(t, u)

\* C9 where no call waits for the lock (wait_for = 0 everywhere)
C9_DecoratedBodiesExclusiveNoWait ==
    (\A t \in Threads : env.waits[t] = {0}) => C9_DecoratedBodiesExclusive

\* a wrapped callable is skipped while another one runs under the same key
C9_SkippedWitness ==
    \E t \in Threads, u \in Threads :
        /\ InDecoratedBody(u)
        /\ call[t].op = "decorated" /\ pc[t] = "return" /\ ~disabled[mgr(t)]
        /\ call[t].nskey = call[u].nskey
        /\ ~call[t].locked /\ ~call[t].ran /\ call[t].out = "returned"

\* the manager of m runs in a process other than the one that initialized it
Forked(m) == launch_pid[m] # NoPid /\ launch_pid[m] # pid[m]

\* C10 (fork guard), the states: in a forked copy no acquire gets past the
\* pid check: it ends in RuntimeError without a uuid, a namespaced key or a
\* store attempt.
C10_ForkedNeverAcquires ==
    \A t \in Threads :
        Forked(mgr(t)) =>
            /\ pc[t] \in {"idle", "delete", "return"}
            /\ (pc[t] = "return" /\ call[t].op # "release") =>
                   /\ call[t].out = "RuntimeError"
                   /\ call[t].id_ = None /\ call[t].nskey = NoStr
                   /\ ~call[t].locked /\ ~call[t].ran

\* C10 (fork guard), the steps: the refused acquire changes neither the
\* store nor any registry.
C10_RefusalChangesNothing ==
    \A t \in Threads :
        (Forked(mgr(t)) /\ pc[t] = "idle" /\ pc'[t] # "idle" /\ call'[t].op # "release") =>
            /\ call'[t].out = "RuntimeError"
            /\ store' = store /\ locks' = locks /\ uuids' = uuids

\* C10 (fork guard): an acquire made in a process whose pid differs from the
\* pid recorded at first initialization raises a fatal error before any
\* store write and before any change of the registry.
C10_ForkGuard ==
    []C10_ForkedNeverAcquires /\ [][C10_RefusalChangesNothing]_vars

\* the forked copy of a manager that holds a key is refused a second acquire
C10_Witness ==
    \E t \in Threads :
        /\ Forked(mgr(t))
        /\ pc[t] = "return" /\ call[t].op = "acquire" /\ call[t].out = "RuntimeError"
        /\ locks[mgr(t)] # {}


\* C11 (bounded wait), the states: a call that polls has wait_for > 0 and has
\* been polling for at most wait_for plus the poll sleep under way.
C11_PollsWithinWait ==
    \A t \in Threads :
        pc[t] \in {"poll", "poll_sleep"} =>
            /\ call[t].wait_for > 0
            /\ now - call[t].start <= call[t].wait_for + 1

\* C11 (bounded wait), the steps: at the top of the loop with more than
\* wait_for elapsed the call makes no further attempt and leaves the loop
\* without a lock, and a call that left the loop without a lock returns False
\* (its region is not entered with the lock) and adds nothing to the registry.
C11_GivesUp ==
    \A t \in Threads :
        /\ (pc[t] = "poll" /\ now - call[t].start > call[t].wait_for /\ call'[t] # call[t])
               => (pc'[t] = "finish" /\ call'[t].lock = None /\ store' = store)
        /\ (pc[t] = "finish" /\ call[t].wait_for # 0 /\ call[t].lock = None
              /\ call'[t] # call[t])
               => (~call'[t].locked /\ call'[t].out # "True" /\ locks' = locks)

\* C11 (bounded wait): an acquire with wait_for = W > 0 on a key whose record
\* stays live stops polling once more than W has elapsed and returns False;
\* it never polls on, and it does not add the key to the registry.
C11_BoundedWait ==
    []C11_PollsWithinWait /\ [][C11_GivesUp]_vars

\* a call gave up after waiting longer than wait_for on a record that was
\* live at every attempt; its key is not in the registry
C11_Witness ==
    \E t \in Threads :
        /\ pc[t] = "finish" /\ call[t].wait_for = MaxWait /\ call[t].lock = None
        /\ now - call[t].start > call[t].wait_for
        /\ call[t].prior # None /\ call[t].prior.lock_id.by # t
        /\ Live(store[call[t].nskey], now)
        /\ call[t].nskey \notin locks[mgr(t)]

\* thread t takes a step that sends find_one_and_replace to the store
Tries(t) ==
    \/ pc[t] \in {"idle", "init"} /\ pc'[t] \notin {"idle", "init"} /\ call'[t].id_ # None
    \/ pc[t] = "poll" /\ pc'[t] \in {"poll_sleep", "return"}

\* C12 (acquisition error policy), the steps: an attempt that meets a live
\* record (the store answers DuplicateKeyError) yields no lock and raises
\* nothing; an attempt on which the store fails otherwise ends the call with
\* that error; neither changes the store or the registry, and a call left
\* without a lock returns False.
C12_ConflictOrError ==
    \A t \in Threads :
        /\ Tries(t) =>
              LET doc == store[call'[t].nskey] IN
              IF failures' # failures
              THEN /\ pc'[t] = "return" /\ call'[t].out = "StoreError"
                   /\ ~call'[t].locked /\ store' = store /\ locks' = locks
              ELSE /\ locks' = locks
                   /\ (doc # None /\ doc.expires_at > now) =>
                          /\ call'[t].lock = None /\ pc'[t] # "return"
                          /\ store' = store
        /\ (pc[t] = "finish" /\ call[t].lock = None /\ call[t].op = "acquire"
              /\ call'[t] # call[t])
               => (pc'[t] = "return" /\ call'[t].out = "False" /\ locks' = locks)

\* C12 (acquisition error policy): a uniqueness conflict during acquire makes
\* acquire return False and is never raised to the caller; any other store
\* failure during acquire reaches the caller and leaves the registry without
\* the key.
C12_ErrorPolicy == [][C12_ConflictOrError]_vars

\* a store failure during acquisition reached the caller of lock_context; the
\* region did not run and the key is not in the registry
C12_Witness ==
    \E t \in Threads :
        /\ pc[t] = "return" /\ call[t].op = "context" /\ call[t].out = "StoreError"
        /\ call[t].id_ # None /\ ~call[t].locked /\ ~call[t].ran
        /\ call[t].nskey \notin locks[mgr(t)]

\* C13 (lease written by acquire): whenever an attempt of acquire wins, with
\* or without polling, the record it wrote has expires_at equal to the time
\* of the winning write plus _MAX_AGE, so the lease is live.
C13_LeaseStartsAtWrite ==
    \A t \in Threads :
        LET c == call[t] IN
        /\ (pc[t] = "finish" /\ c.wait_for = 0 /\ Locked(c))
               => c.lock.expires_at = now + _MAX_AGE
        /\ (pc[t] = "poll_sleep" /\ ~c.crossed /\ c.lock # None)
               => (c.lock.expires_at = now + _MAX_AGE /\ Live(c.lock, now))

\* C13 for the calls that do not wait (wait_for = 0)
C13_LeaseStartsAtWriteNoWait ==
    \A t \in Threads :
        (pc[t] = "finish" /\ call[t].wait_for = 0 /\ Locked(call[t]))
            => call[t].lock.expires_at = now + _MAX_AGE


\* the process of manager m is forked or killed in this step
ProcessEnds(m) ==
    \/ pid'[m] # pid[m]
    \/ \E t \in Threads : mgr(t) = m /\ pc'[t] = "crashed" /\ pc[t] # "crashed"

\* C15 (heartbeat lifecycle), the states: in the process that initialized it,
\* the daemon of a manager runs exactly when the manager has made an acquire
\* that got past the disabled check, and is not started before.
C15_RunsIffInitialized ==
    \A m \in Managers :
        /\ ~initialized[m] <=> hb[m].pc = "off"
        /\ (~Forked(m) /\ \A t \in Threads : mgr(t) = m => pc[t] # "crashed")
               => (initialized[m] <=> DaemonRuns(m))

\* C15 (heartbeat lifecycle), the steps: the daemon is started only by an
\* acquire of its manager, and once started it is never back to not started
\* and stops only with its process.
C15_NeverStops ==
    \A m \in Managers :
        /\ initialized[m] => initialized'[m]
        /\ hb[m].pc # "off" => hb'[m].pc # "off"
        /\ (DaemonRuns(m) /\ ~ProcessEnds(m)) => DaemonRuns(m)'
        /\ (hb[m].pc = "off" /\ hb'[m].pc # "off") =>
               \E t \in Threads : /\ mgr(t) = m /\ pc[t] = "init"
                                  /\ call[t].op \in {"acquire", "context", "decorated"}

\* C15 (heartbeat lifecycle): the daemon of a manager is not started before
\* the first acquire, runs after it, and once running never goes back to not
\* started and never terminates, whatever acquires, releases and renewal
\* failures follow.
C15_HeartbeatLifecycle ==
    []C15_RunsIffInitialized /\ [][C15_NeverStops]_vars

\* the daemon is in its next cycle after a cycle of three failed renewals and
\* the release of every key of its manager
C15_Witness ==
    \E m \in Managers :
        /\ hb[m].pc = "sleep" /\ failures >= HeartbeatAttempts
        /\ locks[m] = {} /\ now > _MAX_AGE \div 3
        /\ \A t \in Threads : mgr(t) = m => pc[t] = "idle"

\* C18 (heartbeat retry), the states: the attempts of a cycle are numbered
\* 0, 1, 2, and the sleep after failed attempt n lasts n seconds.
C18_AttemptsNumbered ==
    \A m \in Managers :
        /\ hb[m].n \in 0 .. 2
        /\ hb[m].pc = "backoff" => hb[m].wake <= now + hb[m].n

\* C18 (heartbeat retry), the steps: a successful update ends the cycle, a
\* failed one is followed by a sleep of n seconds and then by attempt n + 1
\* if n < 2, and after the third failure the daemon starts its next cycle; no
\* step of the daemon changes what any caller thread sees.
C18_RetriesThenNextCycle ==
    \A m \in Managers :
        /\ (hb[m].pc = "update" /\ hb'[m] # hb[m] /\ ~ProcessEnds(m)) =>
              /\ call' = call
              /\ IF failures' # failures
                 THEN /\ hb'[m].pc = "backoff" /\ hb'[m].n = hb[m].n
                      /\ hb'[m].wake = now + hb[m].n
                      /\ store' = store
                 ELSE /\ hb'[m].pc = "sleep"
                      /\ hb'[m].wake = now + (_MAX_AGE \div 3)
        /\ (hb[m].pc = "backoff" /\ hb'[m] # hb[m] /\ ~ProcessEnds(m)) =>
              /\ call' = call /\ store' = store
              /\ IF hb[m].n < 2
                 THEN hb'[m].pc = "read" /\ hb'[m].n = hb[m].n + 1
                 ELSE hb'[m].pc = "sleep" /\ hb'[m].wake = now + (_MAX_AGE \div 3)

\* C18 (heartbeat retry): within one cycle the daemon issues the bulk update
\* at most 3 times, stopping at the first success, with a backoff that grows
\* linearly; when all 3 fail the cycle is abandoned, no error reaches a
\* caller, and the daemon goes on to the next cycle.
C18_HeartbeatRetry ==
    []C18_AttemptsNumbered /\ [][C18_RetriesThenNextCycle]_vars

\* the third attempt of a cycle has failed while a caller is inside its
\* region, undisturbed
C18_Witness ==
    \E m \in Managers, t \in Threads :
        /\ mgr(t) = m
        /\ hb[m].pc = "backoff" /\ hb[m].n = 2
        /\ pc[t] = "body" /\ call[t].locked /\ call[t].err = NoStr

\* the scoped call of t did not get the lock
Lost(t) ==
    \/ pc[t] = "finish" /\ ~Locked(call[t])
    \/ pc[t] \in {"body", "finally", "delete"} /\ ~call[t].locked

\* C19 (failed scoped acquisition): from the moment a scoped acquisition or a
\* decorated call has failed to get its key, with or without
\* raise_exceptions, no step of it changes the store or a registry, and it
\* never runs the delete of _release.
C19_LoserLeavesNoTrace ==
    [][\A t \in Threads :
          (Scoped(t) /\ ~disabled[mgr(t)] /\ Lost(t) /\ call'[t] # call[t])
              => (store' = store /\ locks' = locks /\ pc'[t] # "delete")]_vars

\* a scoped call that lost ran its region and left, and the record of the
\* holder, who is still in its region, is as the loser found it
C19_Witness ==
    \E t \in Threads, u \in Threads :
        /\ t # u
        /\ pc[t] = "return" /\ call[t].op = "context" /\ ~disabled[mgr(t)]
        /\ ~call[t].locked /\ call[t].ran /\ call[t].out = "BodyError"
        /\ pc[u] = "body" /\ call[u].locked /\ call[u].nskey = call[t].nskey
        /\ store[call[u].nskey] # None
        /\ store[call[u].nskey].lock_id = call[u].id_
        /\ call[u].nskey \in locks[mgr(u)] /\ call[t].nskey \notin locks[mgr(t)]


\* thread t deletes, with no store failure, a record that holds the token of
\* another call
DeletesForeign(t) ==
    /\ Deletes(t) /\ failures' = failures
    /\ store[call[t].nskey] # None
    /\ store[call[t].nskey].lock_id.by # t

\* C14 (unconditional release): the delete of a release removes the record of
\* the key whatever holder token is stored in it; a record written by another
\* caller that took the key over after the releasing caller's lease expired
\* is deleted like the caller's own, live or not.
C14_ReleaseDeletesAnyToken ==
    [][\A t \in Threads :
          DeletesForeign(t) => /\ store'[call[t].nskey] = None
                               /\ call'[t].err = call[t].err]_vars

\* t2's lease lapsed and t1 took the key over in its second call, made after
\* a lease period, and is inside its region; t2 left its own region and
\* deleted t1's record, live until two lease periods have passed, and now the
\* acquire of t3, which found no record at all, returns True
C14_Witness ==
    /\ HoldsInBody("t1") /\ uuids["t1"] = 2 /\ now < _MAX_AGE + _MAX_AGE
    /\ uuids["t2"] = 1 /\ pc["t2"] = "idle"
    /\ pc["t3"] = "return" /\ call["t3"].op = "acquire" /\ call["t3"].out = "True"
    /\ call["t3"].nskey = call["t1"].nskey /\ call["t3"].prior = None
    /\ store[call["t3"].nskey].lock_id = call["t3"].id_

\* C16 (single heartbeat daemon): at most one heartbeat thread is ever
\* started per manager instance, whatever the interleaving of the acquire
\* calls made on it from several threads, first calls made at the same time
\* included.  (Violated: two threads of a manager that both test
\* `not self._initialized' before either sets it both call _initialize.)
C16_OneDaemonPerManager ==
    \A m \in Managers : started[m] <= 1


\* C17 (registry synchronization): the accesses to the registry by the caller
\* threads (add on acquire, discard on release) and by the heartbeat daemon
\* (the read of all keys at each cycle) exclude each other: no caller thread
\* changes the registry of a manager while the daemon of that manager is
\* reading it.  (Violated: nothing in the code guards self._locks.)
C17_RegistryAccessExclusive ==
    [][\A m \in Managers : hb[m].pc = "read" => locks'[m] = locks[m]]_vars


\* the heartbeat thread of m completes a successful update_many
Renews(m) == hb[m].pc = "update" /\ hb'[m].pc = "sleep" /\ failures' = failures

\* C20 (heartbeat renews own leases only): an update of the heartbeat of a
\* manager does not change expires_at of a record that holds the token of a
\* call of another manager while the key is in its own registry.  Stated for the workloads without direct release
\* calls, where a manager loses a key that is still in its registry only
\* after a lease has expired and been taken over.  (Violated: update_many
\* selects by _id only.)
C20_RenewsOwnLeasesOnly ==
    [][\A m \in Managers, i \in Ids :
          (/\ "release" \notin env.ops
           /\ Renews(m)
           /\ i \in locks[m]
           /\ store[i] # None /\ mgr(store[i].lock_id.by) # m) =>
              store'[i].expires_at = store[i].expires_at]_vars


\* C21 (unique identifiers): the namespaced identifiers built for two
\* different (namespace, key) pairs differ, whatever the namespaces and keys,
\* those that contain the separator included, so that two managers never
\* meet on one store record unless they share namespace and key.
\* (Violated: the pairs ("a", "b__job") and ("a__b", "job") both give
\* "a__b__job".)
C21_IdentifiersDiffer ==
    (/\ named.id1 # NoStr /\ named.id2 # NoStr
     /\ <<named.n1, named.k1>> # <<named.n2, named.k2>>) => named.id1 # named.id2

\* C21 for namespaces and keys that neither contain an underscore
C21_PlainIdentifiersDiffer ==
    (/\ named.id1 # NoStr /\ named.id2 # NoStr
     /\ {named.n1, named.n2} \subseteq {"a", "b"} /\ {named.k1, named.k2} \subseteq {"job"}
     /\ <<named.n1, named.k1>> # <<named.n2, named.k2>>) => named.id1 # named.id2


\* C22 (no resurrection): a heartbeat update never creates a record: an
\* identifier with no record before the update of a manager's daemon has none
\* after it, also when the daemon read the registry before a release of the
\* same manager discarded the key and deleted the record.  So once a release
\* has returned, the store holds a record for its key only if a later
\* acquire has written one.
C22_HeartbeatCreatesNoRecord ==
    [][\A m \in Managers, i \in Ids :
          (Renews(m) /\ store[i] = None) => store'[i] = None]_vars

\* the daemon of a manager is about to update a key that it read from the
\* registry before a release of that manager, now returned, discarded it and
\* deleted its record
C22_Witness ==
    \E t \in Threads :
        LET m == mgr(t) IN
        /\ pc[t] = "return" /\ call[t].op = "release" /\ call[t].out = "returned"
        /\ ~disabled[m]
        /\ hb[m].pc = "update" /\ call[t].nskey \in hb[m].keys
        /\ call[t].nskey \notin locks[m]
        /\ store[call[t].nskey] = None


\* the number of batches handed to the producer that hold payload p
SentIn(p) == Cardinality({j \in 1 .. Len(hub.sent) : p \in Payloads(hub.sent[j])})

\* C23 (event sink delivery), no more than once: no accepted payload is in
\* two batches handed to the producer, and only accepted payloads are sent.
C23_SentAtMostOnce ==
    /\ \A p \in hub.accepted : SentIn(p) <= 1
    /\ \A j \in 1 .. Len(hub.sent) : Payloads(hub.sent[j]) \subseteq hub.accepted

\* C23 (event sink delivery): every payload accepted by add_event while the
\* sender is running is sent in exactly one batch, at the count threshold,
\* at the time threshold or at shutdown: once shutdown has completed, every
\* accepted payload has been sent once and none is left in the queue.
\* (Violated: the loop ends on self._running without draining the queue.)
C23_AcceptedIsSent ==
    hub.shutdown = "done" =>
        /\ \A p \in hub.accepted : SentIn(p) = 1
        /\ hub.queue = <<>>

\* C23 for the payloads the consumer took from the queue that fit a batch of
\* the producer: after shutdown each of them has been sent once
C23_DrainedIsSent ==
    hub.shutdown = "done" =>
        \A p \in hub.accepted :
            (~p.large /\ p \notin Payloads(hub.queue)) => SentIn(p) = 1


\* shutdown has completed after the consumer sent a batch, and a payload
\* accepted since is still in the queue
C23_LeftInQueue ==
    hub.shutdown = "done" /\ hub.sent # <<>> /\ hub.queue # <<>>

====
